---------------------------- MODULE Spec2Model ----------------------------
(***************************************************************************)
(* FormBase: the filter-criteria compiler buildFilterQuery of              *)
(* src/services/api.ts, which turns an ordered list of FilterCriteria into *)
(* a PostgREST query-string fragment, its caller recordAPI.getByFormId,    *)
(* and the screens that validate what the user enters: RecordCreateScreen, *)
(* FieldCreateScreen and FilterBuilderScreen.                              *)
(*                                                                         *)
(* Strings are TLC strings: \o concatenates, Len is the length and         *)
(* SubSeq(s, i, j) is the substring of the characters i..j.                *)
(***************************************************************************)
EXTENDS Integers, Sequences, FiniteSets, TLC

VARIABLES
    \* one compilation: the list handed to buildFilterQuery, the caller's
    \* position and the returned fragment
    filters, pc, result,
    \* invocations of buildFilterQuery executed statement by statement:
    \* calls[c] is the invocation of caller c, accs holds the accumulators
    \* `groups` and `currentGroup`, log the finished invocations
    calls, accs, log,
    \* the component state of RecordCreateScreen, FieldCreateScreen and
    \* FilterBuilderScreen, and one call of recordAPI.getByFormId
    rc, fc, fb, req,
    \* one run of optimizeImage, and the storage and clock of CacheManager
    img, cache

callVars == <<calls, accs, log>>

screenVars == <<rc, fc, fb, req>>

utilVars == <<img, cache>>

vars == <<filters, pc, result, callVars, screenVars, utilVars>>

(***************************************************************************)
(* Bounds of the checked inputs.                                           *)
(***************************************************************************)
\* longest criterion list of the grouping inputs
MaxLen == 4
\* longest criterion list of the encoding inputs
MaxEncLen == 2
\* longest criterion list handed to a statement-by-statement invocation
MaxCallLen == 2
\* number of invocations one caller makes one after the other
MaxCalls == 3
\* most criteria added in FilterBuilderScreen
MaxFilters == 2
\* longest criterion list handed to recordAPI.getByFormId
MaxSearchLen == 2
\* longest criterion list whose texts contain an accessor
MaxAccLen == 3
\* most search requests in flight
MaxPending == 2
\* last reading of the clock the cache sees
MaxClock == 2

(***************************************************************************)
(* Constants of the program                                                *)
(***************************************************************************)
\* FieldCreateScreen.addOption: if (options.length >= 20)
MAX_OPTIONS == 20

(***************************************************************************)
(* types: FilterOperator, FilterLogic, FilterCriteria                      *)
(***************************************************************************)
FilterOperator == {"ilike", "like", "eq", "gt", "lt", "gte", "lte"}

FilterLogic == {"and", "or"}

\* `logic?: FilterLogic`: the property may be absent
undefined == "undefined"

\* the criteria over the given field names and raw values
FilterCriteria(fields, values) ==
    [field : fields, operator : FilterOperator, value : values,
     logic : FilterLogic \cup {undefined}]

(***************************************************************************)
(* JavaScript string and array primitives used by buildFilterQuery         *)
(***************************************************************************)
RECURSIVE JoinFrom(_, _, _)
JoinFrom(strs, sep, i) ==
    IF i > Len(strs) THEN ""
    ELSE IF i = Len(strs) THEN strs[i]
    ELSE strs[i] \o sep \o JoinFrom(strs, sep, i + 1)

\* Array.prototype.join
join(strs, sep) == JoinFrom(strs, sep, 1)

RECURSIVE IndexFrom(_, _, _)
IndexFrom(s, pat, i) ==
    IF i + Len(pat) - 1 > Len(s) THEN 0
    ELSE IF SubSeq(s, i, i + Len(pat) - 1) = pat THEN i
    ELSE IndexFrom(s, pat, i + 1)

\* String.prototype.indexOf, 1-based; 0 when pat does not occur
indexOf(s, pat) == IndexFrom(s, pat, 1)

RECURSIVE ReplaceFrom(_, _, _, _)
ReplaceFrom(s, pat, rep, i) ==
    IF i > Len(s) THEN ""
    ELSE IF i + Len(pat) - 1 <= Len(s) /\ SubSeq(s, i, i + Len(pat) - 1) = pat
    THEN rep \o ReplaceFrom(s, pat, rep, i + Len(pat))
    ELSE SubSeq(s, i, i) \o ReplaceFrom(s, pat, rep, i + 1)

\* mutant: every occurrence is replaced
replace_everyOccurrence(s, pat, rep) == ReplaceFrom(s, pat, rep, 1)

\* String.prototype.replace with a string pattern: the first occurrence only
replace(s, pat, rep) ==
    LET i == indexOf(s, pat)
    IN  IF i = 0 THEN s
        ELSE SubSeq(s, 1, i - 1) \o rep \o SubSeq(s, i + Len(pat), Len(s))

(***************************************************************************)
(* buildFilterQuery                                                        *)
(***************************************************************************)
\* const hasOr = filters.some((f, i) => i < filters.length - 1 && f.logic === 'or')
hasOr(fs) == \E i \in 1..Len(fs) : i < Len(fs) /\ fs[i].logic = "or"

\* mutant: the fast path adds no wildcard to an empty value
queryValue_emptyUnwrapped(f) ==
    IF f.value = "" THEN ""
    ELSE IF f.operator = "ilike" THEN "*" \o f.value \o "*"
    ELSE IF f.operator = "like" THEN f.value \o "*"
    ELSE f.value

\* fast path: let queryValue = f.value; if (f.operator === 'ilike') ...
queryValue(f) ==
    IF f.operator = "ilike" THEN "*" \o f.value \o "*"
    ELSE IF f.operator = "like" THEN f.value \o "*"
    ELSE f.value

\* mutant: the fast path uses the text-extraction accessor
simpleTerm_textAccessor(f) ==
    "values->>" \o f.field \o "." \o f.operator \o "." \o queryValue(f)

\* fast path: `values->${f.field}.${f.operator}.${queryValue}`
simpleTerm(f) ==
    "values->" \o f.field \o "." \o f.operator \o "." \o queryValue(f)

\* mutant: the general path forgets the wildcard of `like`
groupQueryValue_likeUnencoded(filter) ==
    IF filter.operator = "ilike" THEN "*" \o filter.value \o "*"
    ELSE filter.value

\* general path: let queryValue = filter.value; if (filter.operator === 'ilike') ...
groupQueryValue(filter) ==
    IF filter.operator = "ilike" THEN "*" \o filter.value \o "*"
    ELSE IF filter.operator = "like" THEN filter.value \o "*"
    ELSE filter.value

\* mutant: the members of a group use the structured accessor
groupTerm_structuredAccessor(filter) ==
    "values->" \o filter.field \o "." \o filter.operator \o "."
        \o groupQueryValue(filter)

\* general path: `values->>${filter.field}.${filter.operator}.${queryValue}`
groupTerm(filter) ==
    "values->>" \o filter.field \o "." \o filter.operator \o "."
        \o groupQueryValue(filter)

\* mutant: the `else if` branch is missing, no group is ever closed in the loop
forEachBody_neverCloses(acc, fs, index) ==
    [groups |-> acc.groups,
     currentGroup |-> Append(acc.currentGroup, groupTerm(fs[index]))]

\* mutant: the connector is read the wrong way round, `and` continues the
\* group and `or` closes it
forEachBody_invertedConnector(acc, fs, index) ==
    LET pushed == Append(acc.currentGroup, groupTerm(fs[index]))
    IN  IF fs[index].logic = "and" /\ index < Len(fs)
        THEN [groups |-> acc.groups, currentGroup |-> pushed]
        ELSE IF index < Len(fs)
        THEN [groups |-> Append(acc.groups, pushed), currentGroup |-> <<>>]
        ELSE [groups |-> acc.groups, currentGroup |-> pushed]

\* mutant: the connector of a criterion is taken to link it to the previous
\* criterion instead of the next one
forEachBody_linksPrevious(acc, fs, index) ==
    LET term == groupTerm(fs[index])
    IN  IF index > 1 /\ fs[index].logic # "or"
        THEN [groups |-> Append(acc.groups, acc.currentGroup),
              currentGroup |-> <<term>>]
        ELSE [groups |-> acc.groups,
              currentGroup |-> Append(acc.currentGroup, term)]

\* one iteration of filters.forEach on the accumulator (groups, currentGroup)
forEachBody(acc, fs, index) ==
    LET pushed == Append(acc.currentGroup, groupTerm(fs[index]))
    IN  IF fs[index].logic = "or" /\ index < Len(fs)
        THEN [groups |-> acc.groups, currentGroup |-> pushed]
        ELSE IF index < Len(fs)
        THEN [groups |-> Append(acc.groups, pushed), currentGroup |-> <<>>]
        ELSE [groups |-> acc.groups, currentGroup |-> pushed]

RECURSIVE forEach(_, _, _)
forEach(acc, fs, index) ==
    IF index > Len(fs) THEN acc
    ELSE forEach(forEachBody(acc, fs, index), fs, index + 1)

\* mutant: the group still open after the loop is not pushed
pushLast_omitted(acc) == acc.groups

\* "Push last group": if (currentGroup.length > 0) groups.push(currentGroup)
pushLast(acc) ==
    IF Len(acc.currentGroup) > 0
    THEN Append(acc.groups, acc.currentGroup)
    ELSE acc.groups

\* the grouping pass: the loop, then "Push last group"
groupsOf(fs) ==
    pushLast(forEach([groups |-> <<>>, currentGroup |-> <<>>], fs, 1))

RECURSIVE NestFrom(_, _)
NestFrom(group, i) ==
    IF i = Len(group) THEN group[i]
    ELSE "or=(" \o group[i] \o "," \o NestFrom(group, i + 1) \o ")"

\* mutant: a group of three or more is rendered as nested binary disjunctions
renderGroup_nested(group) ==
    IF Len(group) = 1
    THEN replace(group[1], "values->>", "values->")
    ELSE NestFrom(group, 1)

\* mutant: a single condition keeps the accessor it was pushed with
renderGroup_noReplace(group) ==
    IF Len(group) = 1
    THEN group[1]
    ELSE "or=(" \o join(group, ",") \o ")"

\* mutant: a group is joined by commas but not wrapped
renderGroup_noWrapper(group) ==
    IF Len(group) = 1
    THEN replace(group[1], "values->>", "values->")
    ELSE join(group, ",")

\* groups.map(group => ...)
renderGroup(group) ==
    IF Len(group) = 1
    THEN replace(group[1], "values->>", "values->")
    ELSE "or=(" \o join(group, ",") \o ")"

\* mutant: no early return, the empty list is rendered as an empty disjunction
buildFilterQuery_noEarlyReturn(fs) ==
    IF ~hasOr(fs) /\ Len(fs) > 0
    THEN join([i \in 1..Len(fs) |-> simpleTerm(fs[i])], "&")
    ELSE LET groups == groupsOf(fs)
         IN  IF Len(groups) = 0 THEN "or=()"
             ELSE join([g \in 1..Len(groups) |-> renderGroup(groups[g])], "&")

buildFilterQuery(fs) ==
    IF Len(fs) = 0 THEN ""
    ELSE IF ~hasOr(fs)
    THEN join([i \in 1..Len(fs) |-> simpleTerm(fs[i])], "&")
    ELSE LET groups == groupsOf(fs)
         IN  join([g \in 1..Len(groups) |-> renderGroup(groups[g])], "&")

(***************************************************************************)
(* Inputs                                                                  *)
(***************************************************************************)
ListsUpTo(n, S) == UNION {[1..k -> S] : k \in 0..n}

\* grouping inputs: every connector (and none) at every position, with an
\* operator that leaves the raw value alone and one that adds a wildcard
GroupingInputs ==
    ListsUpTo(MaxLen, [field : {"name"}, operator : {"eq", "like"},
                       value : {"John"}, logic : FilterLogic \cup {undefined}])

\* encoding inputs: every operator, with fields and raw values that vary
EncodingInputs ==
    ListsUpTo(MaxEncLen, [field : {"name", "age"}, operator : FilterOperator,
                          value : {"", "Jo"}, logic : FilterLogic])

\* accessor inputs: fields and raw values that contain the text `values->>`
AccessorInputs ==
    ListsUpTo(MaxAccLen, [field : {"name", "values->>a"},
                          operator : {"eq", "ilike"},
                          value : {"Jo", "values->>"},
                          logic : FilterLogic])

\* the inputs of the JSDoc examples of buildFilterQuery, and a mixed list
DocAnd ==
    << [field |-> "name", operator |-> "eq", value |-> "John", logic |-> "and"],
       [field |-> "age", operator |-> "gt", value |-> "25", logic |-> undefined] >>

DocOr ==
    << [field |-> "name", operator |-> "eq", value |-> "John", logic |-> "or"],
       [field |-> "name", operator |-> "eq", value |-> "Jane", logic |-> undefined] >>

DocMixed ==
    << [field |-> "name", operator |-> "eq", value |-> "John", logic |-> "or"],
       [field |-> "name", operator |-> "eq", value |-> "Jane", logic |-> "and"],
       [field |-> "age", operator |-> "gt", value |-> "25", logic |-> undefined] >>

DocInputs == {DocAnd, DocOr, DocMixed}

(***************************************************************************)
(* The state machine: a caller holds a criterion list and calls the        *)
(* compiler once.                                                          *)
(***************************************************************************)
\* the callers of the statement-by-statement invocations (two screens)
Callers == {1, 2}

\* the frame of a caller that is not inside buildFilterQuery
idleFrame ==
    [pc |-> "idle", given |-> <<>>, filters |-> <<>>, index |-> 0,
     result |-> "", overlap |-> FALSE]

\* no statement-by-statement invocation is running
CallsAtRest ==
    /\ calls = [c \in Callers |-> idleFrame]
    /\ accs = [c \in Callers |-> [groups |-> <<>>, currentGroup |-> <<>>]]
    /\ log = <<>>

\* optimizeImage is not running and the cache is not in use
UtilsAtRest ==
    /\ img = [pc |-> "idle"]
    /\ cache = "off"

\* no screen is mounted and recordAPI.getByFormId is not called
ScreensAtRest ==
    /\ rc = "unmounted"
    /\ fc = "unmounted"
    /\ fb = "unmounted"
    /\ req = "idle"

\* no compilation is asked of the one-step caller
CompilerAtRest ==
    /\ filters = <<>>
    /\ pc = "off"
    /\ result = ""

InitWith(inputs) ==
    /\ filters \in inputs
    /\ pc = "call"
    /\ result = ""
    /\ CallsAtRest
    /\ ScreensAtRest
    /\ UtilsAtRest

Init == InitWith(GroupingInputs \cup DocInputs)

InitEnc == InitWith(EncodingInputs)

\* const filterQuery = buildFilterQuery(filters)
Call ==
    /\ pc = "call"
    /\ result' = buildFilterQuery(filters)
    /\ pc' = "returned"
    /\ UNCHANGED <<filters, callVars, screenVars, utilVars>>

Next == Call

Spec == Init /\ [][Next]_vars

SpecEnc == InitEnc /\ [][Next]_vars

InitAcc == InitWith(AccessorInputs)

SpecAcc == InitAcc /\ [][Next]_vars

(***************************************************************************)
(* buildFilterQuery statement by statement.  The accumulators `groups` and *)
(* `currentGroup` are locals of one invocation (api.ts:72-73); a finished  *)
(* invocation is appended to log with the list it was given, the list as   *)
(* it is at the return, and its outcome.                                   *)
(***************************************************************************)
\* a list element that is no criterion record (null): reading a property of
\* it raises a TypeError
null == [null |-> TRUE]

\* mutant: the connector is read as `f.logic.length`, which raises when the
\* criterion has no connector
raises_onAbsentLogic(fs) ==
    \E i \in 1..Len(fs) :
        fs[i] = null \/ (i < Len(fs) /\ fs[i].logic = undefined)

\* f.logic, f.value, filter.value, ... raise on an element that is null
raises(fs) == \E i \in 1..Len(fs) : fs[i] = null

\* mutant: the accumulators live at module level, shared by all invocations
accOf_shared(c) == 1

\* the pair of accumulators an invocation uses: its own locals
accOf(c) == c

\* mutant: the accumulators are not emptied when an invocation starts
newAccumulator_keepsPrevious(old) == old

\* const groups: string[][] = []; let currentGroup: string[] = [];
newAccumulator(old) == [groups |-> <<>>, currentGroup |-> <<>>]

\* lists handed to consecutive invocations, one of them ill-formed
CallInputs ==
    ListsUpTo(MaxCallLen, [field : {"name"}, operator : {"eq"},
                           value : {"John"}, logic : FilterLogic])
        \cup {<<null>>}

\* lists handed to overlapping invocations
ParInputs ==
    ListsUpTo(MaxCallLen, [field : {"name"}, operator : {"eq"},
                           value : {"John", "Jane"}, logic : FilterLogic])

\* lists handed to a single invocation, some of them ill-formed
TotalInputs ==
    GroupingInputs \cup {<<null>>} \cup
        {<<f, null>> : f \in [field : {"name"}, operator : {"eq"},
                              value : {"John"}, logic : FilterLogic]}

InitCalls ==
    CompilerAtRest /\ CallsAtRest /\ ScreensAtRest /\ UtilsAtRest

\* the invocations caller c has finished
Finished(c) == {k \in 1..Len(log) : log[k].caller = c}

\* caller c calls buildFilterQuery(fs)
Invoke(c, inputs, maxCalls) ==
    /\ calls[c].pc = "idle"
    /\ Cardinality(Finished(c)) < maxCalls
    /\ \E fs \in inputs :
          calls' = [calls EXCEPT ![c] =
                      [pc |-> "entry", given |-> fs, filters |-> fs,
                       index |-> 0, result |-> "", overlap |-> FALSE]]
    /\ UNCHANGED <<accs, log, filters, pc, result, screenVars, utilVars>>

\* lines 53-73: the early return, hasOr, the fast path, or the accumulators
Entry(c) ==
    LET fs == calls[c].filters
    IN  /\ calls[c].pc = "entry"
        /\ IF raises(fs)
           THEN /\ calls' = [calls EXCEPT ![c].pc = "threw"]
                /\ UNCHANGED accs
           ELSE IF Len(fs) = 0
           THEN /\ calls' = [calls EXCEPT ![c].pc = "return",
                                          ![c].result = ""]
                /\ UNCHANGED accs
           ELSE IF ~hasOr(fs)
           THEN /\ calls' = [calls EXCEPT
                               ![c].pc = "return",
                               ![c].result =
                                   join([i \in 1..Len(fs) |->
                                            simpleTerm(fs[i])], "&")]
                /\ UNCHANGED accs
           ELSE /\ calls' = [calls EXCEPT ![c].pc = "loop", ![c].index = 1]
                /\ accs' = [accs EXCEPT
                              ![accOf(c)] = newAccumulator(accs[accOf(c)])]
        /\ UNCHANGED <<log, filters, pc, result, screenVars, utilVars>>

\* lines 75-93: one iteration of filters.forEach
Iterate(c) ==
    /\ calls[c].pc = "loop"
    /\ calls[c].index <= Len(calls[c].filters)
    /\ accs' = [accs EXCEPT
                  ![accOf(c)] = forEachBody(accs[accOf(c)], calls[c].filters,
                                            calls[c].index)]
    /\ calls' = [calls EXCEPT
                   ![c].index = calls[c].index + 1,
                   \* history: another invocation is inside its loop too
                   ![c].overlap = calls[c].overlap
                                    \/ \E d \in Callers \ {c} :
                                          calls[d].pc = "loop"]
    /\ UNCHANGED <<log, filters, pc, result, screenVars, utilVars>>

\* lines 95-98: "Push last group"
PushLastGroup(c) ==
    /\ calls[c].pc = "loop"
    /\ calls[c].index > Len(calls[c].filters)
    /\ accs' = [accs EXCEPT ![accOf(c)].groups = pushLast(accs[accOf(c)])]
    /\ calls' = [calls EXCEPT ![c].pc = "render"]
    /\ UNCHANGED <<log, filters, pc, result, screenVars, utilVars>>

\* lines 102-109: return groups.map(...).join('&')
Render(c) ==
    LET groups == accs[accOf(c)].groups
    IN  /\ calls[c].pc = "render"
        /\ calls' = [calls EXCEPT
                       ![c].pc = "return",
                       ![c].result =
                           join([g \in 1..Len(groups) |->
                                    renderGroup(groups[g])], "&")]
        /\ UNCHANGED <<accs, log, filters, pc, result, screenVars, utilVars>>

\* the invocation is over: it returned its string or raised
Return(c) ==
    /\ calls[c].pc \in {"return", "threw"}
    /\ log' = Append(log, [caller |-> c, given |-> calls[c].given,
                           filters |-> calls[c].filters,
                           outcome |-> calls[c].pc,
                           overlap |-> calls[c].overlap,
                           result |-> calls[c].result])
    /\ calls' = [calls EXCEPT ![c].pc = "idle"]
    /\ UNCHANGED <<accs, filters, pc, result, screenVars, utilVars>>

Step(c) == Entry(c) \/ Iterate(c) \/ PushLastGroup(c) \/ Render(c) \/ Return(c)

\* one caller, invocation after invocation
NextSeq == Invoke(1, CallInputs, MaxCalls) \/ Step(1)

SpecSeq == InitCalls /\ [][NextSeq]_vars

\* two callers, one invocation each, their statements interleaved
NextPar == \E c \in Callers : Invoke(c, ParInputs, 1) \/ Step(c)

SpecPar == InitCalls /\ [][NextPar]_vars

\* one invocation, run to completion: the function is synchronous
NextTotal == Invoke(1, TotalInputs, 1) \/ Step(1)

SpecTotal == InitCalls /\ [][NextTotal]_vars /\ WF_vars(Step(1))

(***************************************************************************)
(* JavaScript values held by the screens, tagged with their typeof, and    *)
(* the primitives trim, parseFloat and isNaN                               *)
(***************************************************************************)
\* a key that is not in an object, a state value that was never set
noValue == [t |-> "undefined"]

String(s) == [t |-> "string", s |-> s]

\* the number (-1)^neg * (int + 0.frac)
Decimal(neg, int, frac) ==
    [t |-> "number", neg |-> neg, int |-> int, frac |-> frac]

Number(n) == Decimal(FALSE, n, "")

NaN == [t |-> "number", nan |-> TRUE]

\* string[]
Array(items) == [t |-> "object", items |-> items]

isNaN(v) == v = NaN

\* ToBoolean of a value: `value && ...`, `!value`
truthy(v) ==
    CASE v.t = "undefined" -> FALSE
      [] v.t = "string" -> v.s # ""
      [] v.t = "number" -> ~isNaN(v) /\ ~(v.int = 0 /\ v.frac = "")
      [] OTHER -> TRUE

WhiteSpace == {" "}

RECURSIVE trimStart(_)
trimStart(s) ==
    IF Len(s) > 0 /\ SubSeq(s, 1, 1) \in WhiteSpace
    THEN trimStart(SubSeq(s, 2, Len(s)))
    ELSE s

RECURSIVE trimEnd(_)
trimEnd(s) ==
    IF Len(s) > 0 /\ SubSeq(s, Len(s), Len(s)) \in WhiteSpace
    THEN trimEnd(SubSeq(s, 1, Len(s) - 1))
    ELSE s

\* String.prototype.trim
trim(s) == trimEnd(trimStart(s))

DecimalDigits == {"0", "1", "2", "3", "4", "5", "6", "7", "8", "9"}

\* the number of decimal digits of s from position i on
RECURSIVE DigitsFrom(_, _)
DigitsFrom(s, i) ==
    IF i <= Len(s) /\ SubSeq(s, i, i) \in DecimalDigits
    THEN 1 + DigitsFrom(s, i + 1)
    ELSE 0

\* the value of a string of decimal digits
RECURSIVE DigitsValue(_)
DigitsValue(s) ==
    IF s = "" THEN 0
    ELSE 10 * DigitsValue(SubSeq(s, 1, Len(s) - 1))
         + (CHOOSE d \in 0..9 : ToString(d) = SubSeq(s, Len(s), Len(s)))

\* a fraction without its trailing zeros
RECURSIVE FractionDigits(_)
FractionDigits(s) ==
    IF Len(s) > 0 /\ SubSeq(s, Len(s), Len(s)) = "0"
    THEN FractionDigits(SubSeq(s, 1, Len(s) - 1))
    ELSE s

\* parseFloat: leading white space is skipped, then the longest prefix that
\* is a decimal literal (sign, digits, fraction) is read and the rest of the
\* string is ignored; NaN when that prefix has no digit.  (Exponents and
\* "Infinity" are not read: no input of the model has them.)
parseFloat(s) ==
    LET t == trimStart(s)
        signed == Len(t) > 0 /\ SubSeq(t, 1, 1) \in {"+", "-"}
        neg == Len(t) > 0 /\ SubSeq(t, 1, 1) = "-"
        u == IF signed THEN SubSeq(t, 2, Len(t)) ELSE t
        ni == DigitsFrom(u, 1)
        dot == ni < Len(u) /\ SubSeq(u, ni + 1, ni + 1) = "."
        nf == IF dot THEN DigitsFrom(u, ni + 2) ELSE 0
    IN  IF ni = 0 /\ nf = 0 THEN NaN
        ELSE Decimal(neg, DigitsValue(SubSeq(u, 1, ni)),
                     FractionDigits(SubSeq(u, ni + 2, ni + 1 + nf)))

(***************************************************************************)
(* RecordCreateScreen: rc.fields is the loaded form, rc.values the values  *)
(* entered so far (key: field name), rc.errors the messages under the      *)
(* inputs, rc.saving the flag of a running save; rc.last is the outcome of *)
(* the latest handleSave: the values it saw, the alert it raised and the   *)
(* record it handed to recordAPI.create.                                   *)
(***************************************************************************)
\* route.params.formId
formId == 7

\* text and multiline fields of a form, with every combination of the flags
TextFields ==
    [name : {"age", "size"}, field_type : {"text", "multiline"},
     required : BOOLEAN, is_num : BOOLEAN, options : {noValue}]

\* multiple choice fields of a form
ChoiceFields ==
    [name : {"size"}, field_type : {"multiple choice"}, required : BOOLEAN,
     is_num : {FALSE}, options : {Array(<<"S", "M">>)}]

\* the forms fieldAPI.getByFormId returns: a text field, or a text field and
\* a multiple choice field (no code keeps two fields of a form from having
\* the same name)
Forms ==
    {<<f>> : f \in TextFields}
        \cup {<<f, g>> : <<f, g>> \in TextFields \X ChoiceFields}

\* what the user types into an Input
TextInputs == {"", " ", "abc", "42", "12abc"}

\* the keys of values and errors
KeysOf(fields) == {fields[i].name : i \in 1..Len(fields)}

\* const newErrors = {}, const processedValues = {}, useState({})
emptyObject(fields) == [k \in KeysOf(fields) |-> noValue]

\* mutant: a required field accepts a value of white space only
fieldError_blankAccepted(field, value) ==
    IF field.required /\ ~truthy(value)
    THEN String(field.name \o " is required")
    ELSE IF /\ field.is_num /\ truthy(value) /\ value.t = "string"
            /\ isNaN(parseFloat(value.s))
    THEN String("Must be a valid number")
    ELSE noValue

\* the body of fields.forEach in validate: the message the field gets, if any
fieldError(field, value) ==
    IF /\ field.required
       /\ \/ ~truthy(value)
          \/ value.t = "string" /\ trim(value.s) = ""
    THEN String(field.name \o " is required")
    ELSE IF /\ field.field_type \in {"text", "multiline"}
            /\ truthy(value) /\ value.t = "string"
            /\ Len(trim(value.s)) < 1
    THEN String("Cannot be empty")
    ELSE IF /\ field.field_type \in {"text", "multiline"}
            /\ truthy(value) /\ value.t = "string"
            /\ Len(value.s) > 1000
    THEN String("Maximum 1000 characters allowed")
    ELSE IF /\ field.is_num /\ truthy(value) /\ value.t = "string"
            /\ isNaN(parseFloat(value.s))
    THEN String("Must be a valid number")
    ELSE IF field.field_type = "multiple choice" /\ field.required
            /\ ~truthy(value)
    THEN String("Please select an option")
    ELSE IF field.field_type = "location" /\ field.required /\ ~truthy(value)
    THEN String("Please capture location")
    ELSE IF field.field_type = "image" /\ field.required /\ ~truthy(value)
    THEN String("Please add an image")
    ELSE noValue

RECURSIVE validateFrom(_, _, _, _)
validateFrom(fields, values, newErrors, i) ==
    IF i > Len(fields) THEN newErrors
    ELSE LET e == fieldError(fields[i], values[fields[i].name])
         IN  validateFrom(fields, values,
                 IF e = noValue THEN newErrors
                 ELSE [newErrors EXCEPT ![fields[i].name] = e],
                 i + 1)

\* validate: the errors it sets
newErrorsOf(fields, values) ==
    validateFrom(fields, values, emptyObject(fields), 1)

\* validate: return Object.keys(newErrors).length === 0
validate(fields, values) ==
    \A k \in KeysOf(fields) : newErrorsOf(fields, values)[k] = noValue

\* handleSave: if (value !== undefined && value !== null && value !== '')
stored(value) == value # noValue /\ value # String("")

RECURSIVE processFrom(_, _, _, _)
processFrom(fields, values, processed, i) ==
    IF i > Len(fields) THEN processed
    ELSE LET field == fields[i]
             raw == values[field.name]
             value == IF field.is_num /\ truthy(raw) /\ raw.t = "string"
                      THEN parseFloat(raw.s)
                      ELSE raw
         IN  processFrom(fields, values,
                 IF stored(value)
                 THEN [processed EXCEPT ![field.name] = value]
                 ELSE processed,
                 i + 1)

\* handleSave: processedValues
processedValues(fields, values) ==
    processFrom(fields, values, emptyObject(fields), 1)

\* the screen after loadFields
InitRecord ==
    /\ CompilerAtRest
    /\ CallsAtRest
    /\ \E form \in Forms :
          rc = [fields |-> form, values |-> emptyObject(form),
                errors |-> emptyObject(form), saving |-> FALSE,
                mounted |-> TRUE, last |-> noValue, capture |-> noValue,
                notice |-> ""]
    /\ fc = "unmounted"
    /\ fb = "unmounted"
    /\ req = "idle"
    /\ UtilsAtRest

restOfRecord == <<filters, pc, result, callVars, fc, fb, req, utilVars>>

\* renderField: onChangeText of the Input of a text or multiline field
onChangeText ==
    /\ rc.mounted
    /\ \E i \in 1..Len(rc.fields), text \in TextInputs :
          /\ rc.fields[i].field_type \in {"text", "multiline"}
          /\ rc' = [rc EXCEPT !.values[rc.fields[i].name] = String(text),
                              !.errors[rc.fields[i].name] = noValue]
    /\ UNCHANGED restOfRecord

\* renderField: onPress of an option of a multiple choice field
onPressOption ==
    /\ rc.mounted
    /\ \E i \in 1..Len(rc.fields) :
          /\ rc.fields[i].field_type = "multiple choice"
          /\ rc.fields[i].options # noValue
          /\ \E k \in 1..Len(rc.fields[i].options.items) :
                rc' = [rc EXCEPT
                         !.values[rc.fields[i].name] =
                             String(rc.fields[i].options.items[k]),
                         !.errors[rc.fields[i].name] = noValue]
    /\ UNCHANGED restOfRecord

\* handleSave up to `await recordAPI.create(...)`; the button is disabled
\* while saving
handleSave ==
    /\ rc.mounted
    /\ ~rc.saving
    /\ IF ~validate(rc.fields, rc.values)
       THEN rc' = [rc EXCEPT
                     !.errors = newErrorsOf(rc.fields, rc.values),
                     !.last = [values |-> rc.values,
                               alert |-> "Validation Error",
                               created |-> noValue]]
       ELSE rc' = [rc EXCEPT
                     !.errors = newErrorsOf(rc.fields, rc.values),
                     !.saving = TRUE,
                     !.last = [values |-> rc.values,
                               alert |-> "",
                               created |->
                                   [form_id |-> formId,
                                    values |-> processedValues(rc.fields,
                                                               rc.values)]]]
    /\ UNCHANGED restOfRecord

\* recordAPI.create resolves: the alert 'Success', whose button leaves the
\* screen, then `finally`
createResolves ==
    /\ rc.mounted
    /\ rc.saving
    /\ rc' = [rc EXCEPT !.saving = FALSE, !.mounted = FALSE,
                        !.last.alert = "Success"]
    /\ UNCHANGED restOfRecord

\* recordAPI.create rejects: `catch` raises the alert 'Error', then `finally`
createRejects ==
    /\ rc.mounted
    /\ rc.saving
    /\ rc' = [rc EXCEPT !.saving = FALSE, !.last.alert = "Error"]
    /\ UNCHANGED restOfRecord

NextRecord ==
    \/ onChangeText
    \/ onPressOption
    \/ handleSave
    \/ createResolves
    \/ createRejects

SpecRecord == InitRecord /\ [][NextRecord]_vars

(***************************************************************************)
(* FieldCreateScreen: the state of the component (name, fieldType,         *)
(* required, isNum, options, optionInput, loading, errors), and fc.last,   *)
(* the outcome of the latest handleCreate: the alert it raised and the     *)
(* field it handed to fieldAPI.create.                                     *)
(***************************************************************************)
FieldType == {"text", "multiline", "multiple choice", "location", "image"}

\* what the user types as the field name and as an option
NameInputs == {"", "size"}

OptionInputs == {" ", "S", " M"}

\* Array.prototype.includes
includes(items, x) == \E i \in 1..Len(items) : items[i] = x

\* options.filter((_, i) => i !== index), index counted from 0
filterOut(items, index) ==
    [i \in 1..(Len(items) - 1) |->
        IF i <= index THEN items[i] ELSE items[i + 1]]

\* validate: newErrors.name
nameError(name) ==
    IF trim(name) = "" THEN "Field name is required"
    ELSE IF Len(trim(name)) < 2
    THEN "Field name must be at least 2 characters"
    ELSE IF Len(trim(name)) > 50
    THEN "Field name must be less than 50 characters"
    ELSE undefined

\* validate: newErrors.options
optionsError(fieldType, options) ==
    IF fieldType = "multiple choice" /\ Len(options) = 0
    THEN "At least one option is required for multiple choice"
    ELSE IF fieldType = "multiple choice" /\ Len(options) < 2
    THEN "Multiple choice needs at least 2 options"
    ELSE undefined

\* mutant: the options collected so far are sent whatever the type
sentOptions_anyType(fieldType, options) == Array(options)

\* handleCreate: options: fieldType === 'multiple choice' ? options : undefined
sentOptions(fieldType, options) ==
    IF fieldType = "multiple choice" THEN Array(options) ELSE noValue

\* the screen as it is mounted
InitField ==
    /\ CompilerAtRest
    /\ CallsAtRest
    /\ rc = "unmounted"
    /\ fc = [name |-> "", fieldType |-> "text", required |-> FALSE,
             isNum |-> FALSE, options |-> <<>>, optionInput |-> "",
             loading |-> FALSE,
             errors |-> [name |-> undefined, options |-> undefined],
             mounted |-> TRUE, last |-> noValue]
    /\ fb = "unmounted"
    /\ req = "idle"
    /\ UtilsAtRest

restOfField == <<filters, pc, result, callVars, rc, fb, req, utilVars>>

\* onPress of a type button
setFieldType ==
    /\ fc.mounted
    /\ \E type \in FieldType : fc' = [fc EXCEPT !.fieldType = type]
    /\ UNCHANGED restOfField

\* onChangeText of the Input "Field Name"
onChangeName ==
    /\ fc.mounted
    /\ \E text \in NameInputs :
          fc' = [fc EXCEPT !.name = text, !.errors.name = undefined]
    /\ UNCHANGED restOfField

\* onPress of the checkbox "Required field"
setRequired ==
    /\ fc.mounted
    /\ fc' = [fc EXCEPT !.required = ~fc.required]
    /\ UNCHANGED restOfField

\* onPress of the checkbox "Numeric only", rendered for the type text
setIsNum ==
    /\ fc.mounted
    /\ fc.fieldType = "text"
    /\ fc' = [fc EXCEPT !.isNum = ~fc.isNum]
    /\ UNCHANGED restOfField

\* onChangeText of the option Input, rendered for the type multiple choice
setOptionInput ==
    /\ fc.mounted
    /\ fc.fieldType = "multiple choice"
    /\ \E text \in OptionInputs : fc' = [fc EXCEPT !.optionInput = text]
    /\ UNCHANGED restOfField

\* addOption, the button "Add", rendered for the type multiple choice
addOption ==
    /\ fc.mounted
    /\ fc.fieldType = "multiple choice"
    /\ LET trimmedOption == trim(fc.optionInput)
       IN  IF \/ trimmedOption = ""
              \/ Len(trimmedOption) > 100
              \/ includes(fc.options, trimmedOption)
              \/ Len(fc.options) >= MAX_OPTIONS
           THEN UNCHANGED fc
           ELSE fc' = [fc EXCEPT
                         !.options = Append(fc.options, trimmedOption),
                         !.optionInput = "",
                         !.errors.options = undefined]
    /\ UNCHANGED restOfField

\* removeOption(index), the button "Remove" of a listed option
removeOption ==
    /\ fc.mounted
    /\ fc.fieldType = "multiple choice"
    /\ \E index \in 0..(Len(fc.options) - 1) :
          fc' = [fc EXCEPT !.options = filterOut(fc.options, index)]
    /\ UNCHANGED restOfField

\* handleCreate up to `await fieldAPI.create(...)`; the button is disabled
\* while loading
handleCreate ==
    /\ fc.mounted
    /\ ~fc.loading
    /\ LET newErrors == [name |-> nameError(fc.name),
                         options |-> optionsError(fc.fieldType, fc.options)]
       IN  IF newErrors.name # undefined \/ newErrors.options # undefined
           THEN fc' = [fc EXCEPT
                         !.errors = newErrors,
                         !.last = [alert |-> "Validation Error",
                                   created |-> noValue]]
           ELSE fc' = [fc EXCEPT
                         !.errors = newErrors,
                         !.loading = TRUE,
                         !.last =
                             [alert |-> "",
                              created |->
                                  [name |-> trim(fc.name),
                                   field_type |-> fc.fieldType,
                                   required |-> fc.required,
                                   is_num |-> fc.isNum,
                                   options |-> sentOptions(fc.fieldType,
                                                           fc.options)]]]
    /\ UNCHANGED restOfField

\* fieldAPI.create resolves: the alert 'Success', whose button leaves the
\* screen, then `finally`
fieldCreateResolves ==
    /\ fc.mounted
    /\ fc.loading
    /\ fc' = [fc EXCEPT !.loading = FALSE, !.mounted = FALSE,
                        !.last.alert = "Success"]
    /\ UNCHANGED restOfField

\* fieldAPI.create rejects: `catch` raises the alert 'Error', then `finally`
fieldCreateRejects ==
    /\ fc.mounted
    /\ fc.loading
    /\ fc' = [fc EXCEPT !.loading = FALSE, !.last.alert = "Error"]
    /\ UNCHANGED restOfField

NextField ==
    \/ setFieldType
    \/ onChangeName
    \/ setRequired
    \/ setIsNum
    \/ setOptionInput
    \/ addOption
    \/ removeOption
    \/ handleCreate
    \/ fieldCreateResolves
    \/ fieldCreateRejects

SpecField == InitField /\ [][NextField]_vars

(***************************************************************************)
(* FilterBuilderScreen: fb.fields is the loaded form, fb.filters the       *)
(* criteria being edited, fb.searching the flag of a running search,       *)
(* fb.results the records of the latest search (null before one); fb.last  *)
(* is the outcome of the latest handleSearch: the alert it raised and      *)
(* whether it called recordAPI.getByFormId.                                *)
(***************************************************************************)
\* the forms fieldAPI.getByFormId returns to the screen: without fields, and
\* with two text fields
SearchForms ==
    {<<>>,
     <<[name |-> "name", field_type |-> "text", required |-> TRUE,
        is_num |-> FALSE, options |-> noValue],
       [name |-> "age", field_type |-> "text", required |-> FALSE,
        is_num |-> TRUE, options |-> noValue]>>}

\* the operator buttons pressed, of the seven of OPERATORS
SearchOperators == {"ilike", "eq"}

\* what the user types as the value of a criterion
ValueInputs == {"", " ", "Jo"}

\* the record lists recordAPI.getByFormId resolves with
RecordLists == {Array(<<>>), Array(<<1>>)}

\* updateFilter's `updates`: one property of the criterion
Updates(fields) ==
    [field : {fields[i].name : i \in 1..Len(fields)}]
        \cup [operator : SearchOperators]
        \cup [value : ValueInputs]
        \cup [logic : FilterLogic]

\* { ...newFilters[index], ...updates }
spread(f, updates) ==
    [k \in DOMAIN f |-> IF k \in DOMAIN updates THEN updates[k] ELSE f[k]]

\* mutant: only the empty value is invalid, white space is a value
invalid_untrimmed(f) == f.value = ""

\* handleSearch: f => !f.value.trim()
invalid(f) == trim(f.value) = ""

\* handleSearch: filters.filter(f => !f.value.trim())
invalidFilters(fs) == SelectSeq(fs, invalid)

\* the screen after loadFields
InitFilter ==
    /\ CompilerAtRest
    /\ CallsAtRest
    /\ rc = "unmounted"
    /\ fc = "unmounted"
    /\ \E form \in SearchForms :
          fb = [fields |-> form, filters |-> <<>>, searching |-> FALSE,
                results |-> null, last |-> noValue, pending |-> 0,
                cleared |-> FALSE]
    /\ req = "idle"
    /\ UtilsAtRest

restOfFilter == <<filters, pc, result, callVars, rc, fc, req, utilVars>>

\* addFilter, the button "Add Filter"
addFilter ==
    /\ Len(fb.filters) < MaxFilters
    /\ IF Len(fb.fields) = 0
       THEN UNCHANGED fb
       ELSE fb' = [fb EXCEPT
                     !.filters =
                         Append(fb.filters,
                                [field |-> fb.fields[1].name,
                                 operator |-> "ilike", value |-> "",
                                 logic |-> "and"])]
    /\ UNCHANGED restOfFilter

\* removeFilter(index), index counted from 0
removeFilter ==
    /\ \E index \in 0..(Len(fb.filters) - 1) :
          fb' = [fb EXCEPT !.filters = filterOut(fb.filters, index)]
    /\ UNCHANGED restOfFilter

\* updateFilter(index, updates), index counted from 0; the connector buttons
\* are rendered for every criterion but the last
updateFilter ==
    /\ \E index \in 0..(Len(fb.filters) - 1), updates \in Updates(fb.fields) :
          /\ "logic" \in DOMAIN updates => index < Len(fb.filters) - 1
          /\ fb' = [fb EXCEPT !.filters[index + 1] =
                                  spread(fb.filters[index + 1], updates)]
    /\ UNCHANGED restOfFilter

\* mutant: the button is disabled without criteria only
disabled_whenEmptyOnly(searching, n) == n = 0

\* the button "Search Records": disabled={searching || filters.length === 0}
disabled(searching, n) == searching \/ n = 0

\* handleSearch up to `await recordAPI.getByFormId(formId, filters)`.
\* fb.pending counts the requests in flight; fb.cleared tells that "Clear
\* All" was pressed and no request has been started since.
handleSearch ==
    /\ ~disabled(fb.searching, Len(fb.filters))
    /\ fb.pending < MaxPending
    /\ IF Len(invalidFilters(fb.filters)) > 0
       THEN fb' = [fb EXCEPT !.last = [alert |-> "Validation Error",
                                       called |-> FALSE]]
       ELSE fb' = [fb EXCEPT !.searching = TRUE,
                             !.last = [alert |-> "", called |-> TRUE],
                             !.pending = @ + 1,
                             !.cleared = FALSE]
    /\ UNCHANGED restOfFilter

\* recordAPI.getByFormId resolves: setResults(data), then `finally`
searchResolves ==
    /\ fb.pending > 0
    /\ \E data \in RecordLists :
          fb' = [fb EXCEPT !.results = data, !.searching = FALSE,
                           !.pending = @ - 1]
    /\ UNCHANGED restOfFilter

\* recordAPI.getByFormId rejects: `catch` raises the alert 'Error', then
\* `finally`
searchRejects ==
    /\ fb.pending > 0
    /\ fb' = [fb EXCEPT !.searching = FALSE, !.last.alert = "Error",
                        !.pending = @ - 1]
    /\ UNCHANGED restOfFilter

\* handleClearFilters, the button "Clear All"
handleClearFilters ==
    /\ fb' = [fb EXCEPT !.filters = <<>>, !.results = null,
                        !.cleared = TRUE]
    /\ UNCHANGED restOfFilter

NextFilter ==
    \/ addFilter
    \/ removeFilter
    \/ updateFilter
    \/ handleSearch
    \/ searchResolves
    \/ searchRejects
    \/ handleClearFilters

SpecFilter == InitFilter /\ [][NextFilter]_vars

\* every request settles
FairFilter == SpecFilter /\ WF_vars(searchResolves \/ searchRejects)

(***************************************************************************)
(* recordAPI.getByFormId: req is one call, with its arguments formId and   *)
(* filters (absent for the map screens), the URL it fetches, the status of *)
(* the response, the error its `catch` caught, its outcome (the list it    *)
(* returned or the error it rejected with) and its position.               *)
(***************************************************************************)
\* const API_BASE = API_CONFIG.BASE_URL
API_BASE == "https://comp2140a3.uqcloud.net/api"

\* the form ids of the calls
FormIds == {7, 12}

\* the lists FilterBuilderScreen hands over: values that are not blank, as
\* the user typed them
SearchInputs ==
    ListsUpTo(MaxSearchLen, [field : {"name"}, operator : {"eq", "ilike"},
                             value : {"Jo", "R&"}, logic : FilterLogic])

\* getByFormId: let url = ...; if (filters && filters.length > 0) url += ...
recordsUrl(id, fs) ==
    LET url == API_BASE \o "/record?form_id=eq." \o ToString(id)
    IN  IF fs # noValue /\ Len(fs.items) > 0
        THEN url \o "&" \o buildFilterQuery(fs.items)
        ELSE url

\* a caller has called recordAPI.getByFormId(formId) or
\* recordAPI.getByFormId(formId, filters)
InitUrl ==
    /\ CompilerAtRest
    /\ CallsAtRest
    /\ rc = "unmounted"
    /\ fc = "unmounted"
    /\ fb = "unmounted"
    /\ \E id \in FormIds,
          fs \in {noValue} \cup {Array(l) : l \in SearchInputs} :
          req = [pc |-> "called", api |-> "getByFormId", formId |-> id,
                 filters |-> fs, url |-> "", status |-> 0,
                 error |-> noValue, outcome |-> noValue]
    /\ UtilsAtRest

restOfUrl == <<filters, pc, result, callVars, rc, fc, fb, utilVars>>

\* const USERNAME
USERNAME == "s4905889"

\* HTTP status codes of the responses; response.ok is 200..299
Statuses == {200, 204, 400, 404, 500}

responseOk(status) == status >= 200 /\ status <= 299

\* new APIError(message, statusCode)
APIError(statusCode) == [name |-> "APIError", statusCode |-> statusCode]

\* new NetworkError()
NetworkError == [name |-> "NetworkError"]

\* what fetch rejects with: the TypeError of React Native's fetch, the
\* TypeError of a browser's fetch, an abort
FetchErrors ==
    {[name |-> "TypeError", message |-> "Network request failed"],
     [name |-> "TypeError", message |-> "Failed to fetch"],
     [name |-> "AbortError", message |-> "Aborted"]}

\* what response.json() rejects with, and what `data.length` raises on null
SyntaxError == [name |-> "SyntaxError", message |-> "JSON Parse error"]

NullLength ==
    [name |-> "TypeError",
     message |-> "Cannot read property 'length' of null"]

\* mutant: every TypeError is taken for a network failure
caught_anyTypeError(error) ==
    IF error.name = "APIError" THEN error
    ELSE IF error.name = "TypeError" THEN NetworkError
    ELSE APIError(500)

\* catch (error): what the call rejects with
caught(error) ==
    IF error.name = "APIError" THEN error
    ELSE IF error.name = "TypeError" /\ indexOf(error.message, "fetch") # 0
    THEN NetworkError
    ELSE APIError(500)

\* a caller has called formAPI.getAll() or recordAPI.getByFormId(...)
InitErr ==
    \/ InitUrl
    \/ /\ CompilerAtRest
       /\ CallsAtRest
       /\ rc = "unmounted"
       /\ fc = "unmounted"
       /\ fb = "unmounted"
       /\ req = [pc |-> "called", api |-> "getAll", formId |-> 0,
                 filters |-> noValue, url |-> "", status |-> 0,
                 error |-> noValue, outcome |-> noValue]
       /\ UtilsAtRest

\* getByFormId up to `await fetch(url, ...)`
getByFormId ==
    /\ req.pc = "called"
    /\ req.api = "getByFormId"
    /\ req' = [req EXCEPT !.pc = "fetching",
                          !.url = recordsUrl(req.formId, req.filters)]
    /\ UNCHANGED restOfUrl

\* formAPI.getAll up to `await fetch(url, ...)`
getAll ==
    /\ req.pc = "called"
    /\ req.api = "getAll"
    /\ req' = [req EXCEPT !.pc = "fetching",
                          !.url = API_BASE \o "/form?username=eq." \o USERNAME]
    /\ UNCHANGED restOfUrl

\* fetch resolves with a response: on to response.text() if (!response.ok),
\* to response.json() otherwise
responseArrives ==
    /\ req.pc = "fetching"
    /\ \E status \in Statuses :
          req' = [req EXCEPT !.status = status,
                             !.pc = IF responseOk(status) THEN "json" ELSE "text"]
    /\ UNCHANGED restOfUrl

\* fetch rejects: `catch`
requestFails ==
    /\ req.pc = "fetching"
    /\ \E error \in FetchErrors :
          req' = [req EXCEPT !.pc = "threw", !.error = error,
                             !.outcome = caught(error)]
    /\ UNCHANGED restOfUrl

\* response.text() resolves: throw new APIError(..., response.status); `catch`
textResolves ==
    /\ req.pc = "text"
    /\ req' = [req EXCEPT !.pc = "threw", !.error = APIError(req.status),
                          !.outcome = caught(APIError(req.status))]
    /\ UNCHANGED restOfUrl

\* response.json() resolves with the list, or with null: `data.length`, return
jsonResolves ==
    /\ req.pc = "json"
    /\ \E data \in RecordLists \cup {null} :
          req' = IF data = null
                 THEN [req EXCEPT !.pc = "threw", !.error = NullLength,
                                  !.outcome = caught(NullLength)]
                 ELSE [req EXCEPT !.pc = "returned", !.outcome = data]
    /\ UNCHANGED restOfUrl

\* response.json() rejects, the body is not JSON: `catch`
jsonRejects ==
    /\ req.pc = "json"
    /\ req' = [req EXCEPT !.pc = "threw", !.error = SyntaxError,
                          !.outcome = caught(SyntaxError)]
    /\ UNCHANGED restOfUrl

NextUrl ==
    \/ getByFormId
    \/ responseArrives
    \/ requestFails
    \/ textResolves
    \/ jsonResolves
    \/ jsonRejects

SpecUrl == InitUrl /\ [][NextUrl]_vars

NextErr == getAll \/ NextUrl

SpecErr == InitErr /\ [][NextErr]_vars

(***************************************************************************)
(* optimizeImage (utils/imageOptimizer.ts): img is one run, with the       *)
(* quality of the next attempt, the attempts made, the latest result of    *)
(* the compressor, the alerts raised and the value returned.  A quality is *)
(* the exact fraction num/den; a base64 string is known by its length and  *)
(* its number of padding characters.                                       *)
(***************************************************************************)
\* IMAGE_CONFIG.MAX_SIZE and IMAGE_CONFIG.WARNING_SIZE, in bytes
MAX_SIZE == 10 * 1024 * 1024

WARNING_SIZE == 5 * 1024 * 1024

\* const maxAttempts = 5
maxAttempts == 5

\* IMAGE_CONFIG.QUALITY = 0.3
QUALITY == [num |-> 3, den |-> 10]

\* the qualities optimizeImage is called with: the default, 1, 0.5 and 0.1
Qualities ==
    {QUALITY, [num |-> 1, den |-> 1], [num |-> 1, den |-> 2],
     [num |-> 1, den |-> 10]}

\* a base64 string of 4 * quads characters, the last `padding` of them `=`
Base64(quads, padding) == [len |-> 4 * quads, padding |-> padding]

\* what ImageManipulator.manipulateAsync resolves with: no base64 data, a
\* small image, images of exactly WARNING_SIZE, WARNING_SIZE + 1, MAX_SIZE
\* and MAX_SIZE + 1 bytes, and one of 21 000 000 bytes
ImageResults ==
    {Base64(0, 0), Base64(1000, 0), Base64(1747627, 1), Base64(1747627, 0),
     Base64(3495254, 2), Base64(3495254, 1), Base64(7000000, 0)}

\* base64WithPrefix: `data:image/jpeg;base64,${result.base64}`
DataUrl(base64) ==
    [t |-> "string", s |-> "data:image/jpeg;base64,", base64 |-> base64]

\* base64String.replace(/^data:image\/\w+;base64,/, '')
base64Data(base64String) ==
    IF "base64" \in DOMAIN base64String THEN base64String.base64
    ELSE base64String

\* getBase64Size: (base64Data.length * 3 / 4) - padding
getBase64Size(base64String) ==
    (base64Data(base64String).len * 3) \div 4
        - base64Data(base64String).padding

\* const size = getBase64Size(base64WithPrefix)
sizeOf(r) == getBase64Size(DataUrl(r))

\* currentQuality *= 0.7
reduced(q) == [num |-> q.num * 7, den |-> q.den * 10]

\* currentQuality > 0.1
aboveFloor(q) == q.num * 10 > q.den

\* mutant: the loop goes on while the quality is above the floor, whatever
\* the number of attempts
again_uncounted(attemptCount, q) == aboveFloor(q)

\* while (attemptCount < maxAttempts && currentQuality > 0.1)
again(attemptCount, q) == attemptCount < maxAttempts /\ aboveFloor(q)

\* mutant: a result is accepted up to one byte over the limit
acceptable_offByOne(size) == size <= MAX_SIZE + 1

\* if (size <= IMAGE_CONFIG.MAX_SIZE)
acceptable(size) == size <= MAX_SIZE

\* optimizeImage(uri, {quality}) is entered
started(q) ==
    [pc |-> "do", currentQuality |-> q, attemptCount |-> 0,
     result |-> noValue, alerts |-> {}, returned |-> noValue]

\* optimizeImage was called on its own
InitImage ==
    /\ CompilerAtRest
    /\ CallsAtRest
    /\ ScreensAtRest
    /\ \E q \in Qualities : img = started(q)
    /\ cache = "off"

restOfImage == <<filters, pc, result, callVars, screenVars, cache>>

\* do { attemptCount++; result = await ImageManipulator.manipulateAsync(...)
attempt ==
    /\ img.pc = "do"
    /\ img' = [img EXCEPT !.attemptCount = @ + 1, !.pc = "manipulating"]
    /\ UNCHANGED restOfImage

\* manipulateAsync resolves: the rest of the loop body and the loop test
manipulateResolves ==
    /\ img.pc = "manipulating"
    /\ \E r \in ImageResults :
          IF r.len = 0
          THEN img' = [img EXCEPT !.result = r, !.pc = "returned",
                                  !.returned = null]
          ELSE IF acceptable(sizeOf(r))
          THEN img' = [img EXCEPT
                         !.result = r,
                         !.alerts = IF sizeOf(r) > WARNING_SIZE
                                    THEN @ \cup {"Large Image"} ELSE @,
                         !.pc = "returned",
                         !.returned = [base64 |-> DataUrl(r),
                                       size |-> sizeOf(r)]]
          ELSE IF again(img.attemptCount, reduced(img.currentQuality))
          THEN img' = [img EXCEPT
                         !.result = r,
                         !.currentQuality = reduced(@),
                         !.pc = "do"]
          ELSE img' = [img EXCEPT
                         !.result = r,
                         !.currentQuality = reduced(@),
                         !.alerts = @ \cup {"Image Too Large"},
                         !.pc = "returned",
                         !.returned = null]
    /\ UNCHANGED restOfImage

\* manipulateAsync rejects: `catch` raises the alert 'Error' and returns null
manipulateRejects ==
    /\ img.pc = "manipulating"
    /\ img' = [img EXCEPT !.alerts = @ \cup {"Error"}, !.pc = "returned",
                          !.returned = null]
    /\ UNCHANGED restOfImage

NextImage == attempt \/ manipulateResolves \/ manipulateRejects

SpecImage == InitImage /\ [][NextImage]_vars

\* every attempt is made and every call of the compressor settles
FairImage ==
    SpecImage /\ WF_vars(attempt)
              /\ WF_vars(manipulateResolves \/ manipulateRejects)

(***************************************************************************)
(* RecordCreateScreen: handleLocationCapture and handleImageCapture.       *)
(* rc.capture is the running handler: the field it was started for, the    *)
(* `values` and `errors` of the render it was started from (the handler    *)
(* reads them after its awaits) and its position; rc.notice is the title   *)
(* of the alert the latest handler raised.  One handler runs at a time.    *)
(***************************************************************************)
\* a form with a text field, an image field and a location field
CaptureForms ==
    {<<[name |-> "note", field_type |-> "text", required |-> FALSE,
        is_num |-> FALSE, options |-> noValue],
       [name |-> "photo", field_type |-> "image", required |-> r,
        is_num |-> FALSE, options |-> noValue],
       [name |-> "place", field_type |-> "location", required |-> r,
        is_num |-> FALSE, options |-> noValue]>> : r \in BOOLEAN}

\* LocationValue
LocationValue(lat, lng) == [t |-> "object", lat |-> lat, lng |-> lng]

\* what Location.getCurrentPositionAsync resolves with (whole degrees)
Positions == {LocationValue(-27, 153), LocationValue(51, 0)}

\* { ...values, [fieldName]: ... }: `values` is the handler's own, of the
\* render it was started from
spreadFrom(captured, latest) == captured

\* if (optimized)
toStore(optimized) == optimized # null

\* the screen after loadFields
InitCapture ==
    /\ CompilerAtRest
    /\ CallsAtRest
    /\ \E form \in CaptureForms :
          rc = [fields |-> form, values |-> emptyObject(form),
                errors |-> emptyObject(form), saving |-> FALSE,
                mounted |-> TRUE, last |-> noValue, capture |-> noValue,
                notice |-> ""]
    /\ fc = "unmounted"
    /\ fb = "unmounted"
    /\ req = "idle"
    /\ UtilsAtRest

restOfCapture == <<filters, pc, result, callVars, fc, fb, req, cache>>

\* handleLocationCapture up to `await requestForegroundPermissionsAsync()`
handleLocationCapture ==
    /\ rc.mounted
    /\ rc.capture = noValue
    /\ \E i \in 1..Len(rc.fields) :
          /\ rc.fields[i].field_type = "location"
          /\ rc' = [rc EXCEPT !.capture =
                        [fieldName |-> rc.fields[i].name,
                         kind |-> "location", useCamera |-> FALSE,
                         values |-> rc.values, errors |-> rc.errors,
                         pc |-> "permission"]]
    /\ UNCHANGED restOfRecord

\* handleImageCapture up to `await request...PermissionsAsync()`
handleImageCapture ==
    /\ rc.mounted
    /\ rc.capture = noValue
    /\ \E i \in 1..Len(rc.fields), useCamera \in BOOLEAN :
          /\ rc.fields[i].field_type = "image"
          /\ rc' = [rc EXCEPT !.capture =
                        [fieldName |-> rc.fields[i].name,
                         kind |-> "image", useCamera |-> useCamera,
                         values |-> rc.values, errors |-> rc.errors,
                         pc |-> "permission"]]
    /\ UNCHANGED restOfRecord

\* the permission request settles: granted, not granted, or rejected
permissionSettles ==
    /\ rc.capture # noValue
    /\ rc.capture.pc = "permission"
    /\ \E status \in {"granted", "denied", "rejected"} :
          rc' = CASE status = "granted" ->
                       [rc EXCEPT !.capture.pc =
                            IF rc.capture.kind = "location"
                            THEN "position" ELSE "picker"]
                  [] status = "denied" ->
                       [rc EXCEPT !.capture = noValue,
                                  !.notice = "Permission Denied"]
                  [] status = "rejected" ->
                       [rc EXCEPT !.capture = noValue, !.notice = "Error"]
    /\ UNCHANGED restOfRecord

\* Location.getCurrentPositionAsync settles: setValues, setErrors; or `catch`
positionSettles ==
    /\ rc.capture # noValue
    /\ rc.capture.pc = "position"
    /\ \/ \E location \in Positions :
             rc' = [rc EXCEPT
                      !.values = [spreadFrom(rc.capture.values, rc.values)
                                    EXCEPT ![rc.capture.fieldName] = location],
                      !.errors = [spreadFrom(rc.capture.errors, rc.errors)
                                    EXCEPT ![rc.capture.fieldName] = noValue],
                      !.capture = noValue]
       \/ rc' = [rc EXCEPT !.capture = noValue, !.notice = "Error"]
    /\ UNCHANGED restOfRecord

\* launchCameraAsync / launchImageLibraryAsync settles: canceled, rejected,
\* or an asset, with which optimizeImage is called
pickerSettles ==
    /\ rc.capture # noValue
    /\ rc.capture.pc = "picker"
    /\ \/ /\ rc' = [rc EXCEPT !.capture.pc = "optimizing"]
          /\ img' = started(QUALITY)
       \/ /\ rc' = [rc EXCEPT !.capture = noValue]
          /\ UNCHANGED img
       \/ /\ rc' = [rc EXCEPT !.capture = noValue, !.notice = "Error"]
          /\ UNCHANGED img
    /\ UNCHANGED restOfCapture

\* optimizeImage returns to handleImageCapture: if (optimized) setValues,
\* setErrors
optimizeReturns ==
    /\ rc.capture # noValue
    /\ rc.capture.pc = "optimizing"
    /\ img.pc = "returned"
    /\ IF toStore(img.returned)
       THEN rc' = [rc EXCEPT
                     !.values = [spreadFrom(rc.capture.values, rc.values)
                                   EXCEPT ![rc.capture.fieldName] =
                                       img.returned.base64],
                     !.errors = [spreadFrom(rc.capture.errors, rc.errors)
                                   EXCEPT ![rc.capture.fieldName] = noValue],
                     !.capture = noValue]
       ELSE rc' = [rc EXCEPT !.capture = noValue]
    /\ img' = [pc |-> "idle"]
    /\ UNCHANGED restOfCapture

NextCapture ==
    \/ onChangeText
    \/ handleLocationCapture
    \/ handleImageCapture
    \/ permissionSettles
    \/ positionSettles
    \/ pickerSettles
    \/ attempt
    \/ manipulateResolves
    \/ manipulateRejects
    \/ optimizeReturns

SpecCapture == InitCapture /\ [][NextCapture]_vars

(***************************************************************************)
(* CacheManager (utils/cache.ts).  cache.storage is AsyncStorage, cache.now *)
(* is Date.now(), cache.procs holds one frame per caller: the method that   *)
(* is running, its arguments and locals, and the await it stands at.  Every *)
(* AsyncStorage call is a step of its own, so that calls of different       *)
(* callers overlap at the awaits.  cache.lastSet remembers, for each key,   *)
(* the entry of the latest set(key) call, forgotten by remove(key) and      *)
(* clear(); cache.keys are the keys the callers use.  AsyncStorage itself   *)
(* does not fail.                                                          *)
(***************************************************************************)
\* private prefix = '@FormBase:'
prefix == "@FormBase:"

\* getKey
getKey(key) == prefix \o key

\* CACHE_CONFIG.EXPIRY_TIME, the default ttl
EXPIRY_TIME == 5 * 60 * 1000

\* CACHE_KEYS.FORMS and CACHE_KEYS.FIELDS(7)
Keys == {"forms", "fields_7"}

\* the keys AsyncStorage may hold: the cache's own and one of another module
StorageKeys == {getKey(key) : key \in Keys} \cup {"settings"}

\* time-to-live arguments, in clock ticks; the last one is the default
Ttls == {1, EXPIRY_TIME}

\* JSON.stringify(entry): the data cached are the JSON values the API
\* returned, which JSON.parse gives back unchanged
stringify(entry) == [text |-> "json", entry |-> entry]

\* JSON.parse(value)
parse(value) == value.entry

\* key.startsWith(this.prefix)
startsWithPrefix(k) ==
    Len(k) >= Len(prefix) /\ SubSeq(k, 1, Len(prefix)) = prefix

\* mutant: an entry counts as expired at its expiry time already
isExpired_atExpiry(entry, now) == now >= entry.expiresAt

\* isExpired: Date.now() > entry.expiresAt
isExpired(entry, now) == now > entry.expiresAt

\* set: const entry = { data, timestamp: Date.now(), expiresAt: Date.now() + ttl }
entryOf(data, ttl, now) ==
    [data |-> data, timestamp |-> now, expiresAt |-> now + ttl]

\* a caller that is not inside a method of the cache
free(c) == cache.procs[c].pc \in {"idle", "returned", "rejected"}

\* the frame of a call that has returned
returns(frame, value) ==
    [pc |-> "returned", op |-> frame.op, key |-> frame.key, ret |-> value]

\* an empty AsyncStorage, except for the other module's key
emptyStorage ==
    [k \in StorageKeys |-> IF k = "settings" THEN [text |-> "json"] ELSE null]

InitCacheWith(callers, keys) ==
    /\ CompilerAtRest
    /\ CallsAtRest
    /\ ScreensAtRest
    /\ img = [pc |-> "idle"]
    /\ cache = [storage |-> emptyStorage, now |-> 0, keys |-> keys,
                procs |-> [c \in callers |-> [pc |-> "idle"]],
                lastSet |-> [key \in Keys |-> null]]

\* one caller: the operations follow one another
InitCacheSeq == InitCacheWith({1}, Keys)

\* two callers, who use the same key: their operations overlap
InitCache == InitCacheWith(Callers, {"forms"})

restOfCache == <<filters, pc, result, callVars, screenVars, img>>

\* the clock advances
tick ==
    /\ cache.now < MaxClock
    /\ cache' = [cache EXCEPT !.now = @ + 1]
    /\ UNCHANGED restOfCache

\* set(key, data, ttl) up to `await AsyncStorage.setItem`
set(c) ==
    /\ free(c)
    /\ \E key \in cache.keys, data \in RecordLists, ttl \in Ttls :
          cache' = [cache EXCEPT
                      !.procs[c] = [pc |-> "setItem", op |-> "set",
                                    key |-> key,
                                    entry |-> entryOf(data, ttl, cache.now)],
                      !.lastSet[key] = entryOf(data, ttl, cache.now)]
    /\ UNCHANGED restOfCache

\* AsyncStorage.setItem resolves, in set or in the set of getOrFetch
setItemResolves(c) ==
    /\ cache.procs[c].pc = "setItem"
    /\ cache' = [cache EXCEPT
                   !.storage[getKey(cache.procs[c].key)] =
                       stringify(cache.procs[c].entry),
                   !.procs[c] =
                       returns(@, IF @.op = "getOrFetch" THEN @.entry.data
                                  ELSE noValue)]
    /\ UNCHANGED restOfCache

\* get(key) up to `await AsyncStorage.getItem`
get(c) ==
    /\ free(c)
    /\ \E key \in cache.keys :
          cache' = [cache EXCEPT
                      !.procs[c] = [pc |-> "getItem", op |-> "get",
                                    key |-> key]]
    /\ UNCHANGED restOfCache

\* getOrFetch(key, fetchFn, ttl) up to the `await AsyncStorage.getItem` of
\* this.get
getOrFetch(c) ==
    /\ free(c)
    /\ \E key \in cache.keys, ttl \in Ttls :
          cache' = [cache EXCEPT
                      !.procs[c] = [pc |-> "getItem", op |-> "getOrFetch",
                                    key |-> key, ttl |-> ttl]]
    /\ UNCHANGED restOfCache

\* what a frame does when its get found nothing to return: get returns null,
\* getOrFetch calls fetchFn
missed(frame) ==
    IF frame.op = "getOrFetch" THEN [frame EXCEPT !.pc = "fetching"]
    ELSE returns(frame, null)

\* AsyncStorage.getItem resolves: miss, expired (on to this.remove), or hit
getItemResolves(c) ==
    /\ cache.procs[c].pc = "getItem"
    /\ LET value == cache.storage[getKey(cache.procs[c].key)]
       IN  cache' = [cache EXCEPT !.procs[c] =
                IF value = null THEN missed(@)
                ELSE IF isExpired(parse(value), cache.now)
                THEN [@ EXCEPT !.pc = "removeItem"]
                ELSE returns(@, parse(value).data)]
    /\ UNCHANGED restOfCache

\* remove(key) up to `await AsyncStorage.removeItem`
remove(c) ==
    /\ free(c)
    /\ \E key \in cache.keys :
          cache' = [cache EXCEPT
                      !.procs[c] = [pc |-> "removeItem", op |-> "remove",
                                    key |-> key],
                      !.lastSet[key] = null]
    /\ UNCHANGED restOfCache

\* AsyncStorage.removeItem resolves, in remove or in the remove of get
removeItemResolves(c) ==
    /\ cache.procs[c].pc = "removeItem"
    /\ cache' = [cache EXCEPT
                   !.storage[getKey(cache.procs[c].key)] = null,
                   !.procs[c] = IF @.op = "remove" THEN returns(@, noValue)
                                ELSE missed(@)]
    /\ UNCHANGED restOfCache

\* clear() up to `await AsyncStorage.getAllKeys`
clear(c) ==
    /\ free(c)
    /\ cache' = [cache EXCEPT
                   !.procs[c] = [pc |-> "getAllKeys", op |-> "clear",
                                 key |-> ""],
                   !.lastSet = [key \in Keys |-> null]]
    /\ UNCHANGED restOfCache

\* AsyncStorage.getAllKeys resolves: cacheKeys, on to multiRemove
getAllKeysResolves(c) ==
    /\ cache.procs[c].pc = "getAllKeys"
    /\ cache' = [cache EXCEPT !.procs[c] =
                   [pc |-> "multiRemove", op |-> "clear", key |-> "",
                    cacheKeys |-> {k \in StorageKeys :
                                     /\ cache.storage[k] # null
                                     /\ startsWithPrefix(k)}]]
    /\ UNCHANGED restOfCache

\* AsyncStorage.multiRemove resolves
multiRemoveResolves(c) ==
    /\ cache.procs[c].pc = "multiRemove"
    /\ cache' = [cache EXCEPT
                   !.storage = [k \in StorageKeys |->
                                  IF k \in cache.procs[c].cacheKeys THEN null
                                  ELSE @[k]],
                   !.procs[c] = returns(@, noValue)]
    /\ UNCHANGED restOfCache

\* fetchFn resolves: this.set(key, data, ttl) up to its setItem
fetchResolves(c) ==
    /\ cache.procs[c].pc = "fetching"
    /\ \E data \in RecordLists :
          cache' = [cache EXCEPT
                      !.procs[c] =
                          [pc |-> "setItem", op |-> "getOrFetch",
                           key |-> @.key, ttl |-> @.ttl,
                           entry |-> entryOf(data, @.ttl, cache.now)],
                      !.lastSet[cache.procs[c].key] =
                          entryOf(data, cache.procs[c].ttl, cache.now)]
    /\ UNCHANGED restOfCache

\* fetchFn rejects, and getOrFetch with it
fetchRejects(c) ==
    /\ cache.procs[c].pc = "fetching"
    /\ cache' = [cache EXCEPT !.procs[c] =
                   [pc |-> "rejected", op |-> @.op, key |-> @.key]]
    /\ UNCHANGED restOfCache

NextCache ==
    \/ tick
    \/ \E c \in DOMAIN cache.procs :
          \/ set(c)
          \/ setItemResolves(c)
          \/ get(c)
          \/ getOrFetch(c)
          \/ getItemResolves(c)
          \/ remove(c)
          \/ removeItemResolves(c)
          \/ clear(c)
          \/ getAllKeysResolves(c)
          \/ multiRemoveResolves(c)
          \/ fetchResolves(c)
          \/ fetchRejects(c)

\* the operations of one caller, in sequence
SpecCacheSeq == InitCacheSeq /\ [][NextCache]_vars

\* getOrFetch calls of the callers
NextFetch ==
    \/ tick
    \/ \E c \in DOMAIN cache.procs :
          \/ getOrFetch(c)
          \/ getItemResolves(c)
          \/ removeItemResolves(c)
          \/ fetchResolves(c)
          \/ fetchRejects(c)
          \/ setItemResolves(c)

\* the getOrFetch calls of two callers, overlapping
SpecFetch == InitCache /\ [][NextFetch]_vars

(***************************************************************************)
(* Reading a compiled fragment: its top-level terms are separated by `&`,  *)
(* a term `or=(a,b,...)` is a disjunction with the members a, b, ...       *)
(***************************************************************************)
\* the pieces of s between the occurrences of the character sep
Split(s, sep) ==
    LET at == {i \in 1..Len(s) : SubSeq(s, i, i) = sep}
        nth(k) == CHOOSE p \in at : Cardinality({q \in at : q < p}) = k - 1
    IN  [k \in 1..(Cardinality(at) + 1) |->
            SubSeq(s, IF k = 1 THEN 1 ELSE nth(k - 1) + 1,
                      IF k = Cardinality(at) + 1 THEN Len(s) ELSE nth(k) - 1)]

Occurs(pat, s) ==
    \E i \in 1..(Len(s) - Len(pat) + 1) : SubSeq(s, i, i + Len(pat) - 1) = pat

StartsWith(s, pre) == Len(s) >= Len(pre) /\ SubSeq(s, 1, Len(pre)) = pre

\* the empty fragment has no term
TopTerms(q) == IF q = "" THEN <<>> ELSE Split(q, "&")

IsOrGroup(t) ==
    StartsWith(t, "or=(") /\ SubSeq(t, Len(t), Len(t)) = ")"

Members(t) ==
    IF IsOrGroup(t) THEN Split(SubSeq(t, 5, Len(t) - 1), ",") ELSE <<t>>

RECURSIVE FlatFrom(_, _)
FlatFrom(tops, g) ==
    IF g > Len(tops) THEN <<>>
    ELSE [k \in 1..Len(Members(tops[g])) |->
             [top |-> g, term |-> Members(tops[g])[k],
              grouped |-> IsOrGroup(tops[g])]] \o FlatFrom(tops, g + 1)

\* the conditions of a fragment in order, each with the index of the
\* top-level term it sits in and whether that term is an or=(...) group
Flat(q) == FlatFrom(TopTerms(q), 1)

\* <field>.<operator>.<literal> of a criterion, the literal by the operator
Literal(operator, v) ==
    CASE operator = "like" -> v \o "*"
      [] operator = "ilike" -> "*" \o v \o "*"
      [] OTHER -> v

Cond(f) == f.field \o "." \o f.operator \o "." \o Literal(f.operator, f.value)

\* a term without its accessor
Strip(t) ==
    IF StartsWith(t, "values->>") THEN SubSeq(t, 10, Len(t))
    ELSE IF StartsWith(t, "values->") THEN SubSeq(t, 9, Len(t))
    ELSE t

\* criterion i is linked by `or` to a neighbour
InOrRun(fs, i) ==
    \/ i > 1 /\ fs[i - 1].logic = "or"
    \/ i < Len(fs) /\ fs[i].logic = "or"

\* criteria i..j are linked by `or` connectors
OrLinked(fs, i, j) == \A m \in i..(j - 1) : fs[m].logic = "or"

Returned == pc = "returned"

(***************************************************************************)
(* Claims about buildFilterQuery                                           *)
(***************************************************************************)
\* C1: buildFilterQuery applied to an empty criterion list returns the empty
\* string.
C1_EmptyListEmptyString ==
    (Returned /\ Len(filters) = 0) => result = ""

C1_Witness == Returned /\ filters = <<>>

\* C2: for a non-empty list in which no criterion other than the last has
\* connector `or`, the result is exactly the terms
\* values-><field>.<operator>.<literal>, one per criterion in input order,
\* joined by `&`, with no `or=(` and no `values->>` anywhere.
C2_FastPathTerms ==
    (/\ Returned
     /\ Len(filters) > 0
     /\ \A i \in 1..(Len(filters) - 1) : filters[i].logic # "or")
    => /\ Split(result, "&")
            = [i \in 1..Len(filters) |-> "values->" \o Cond(filters[i])]
       /\ ~Occurs("or=(", result)
       /\ ~Occurs("values->>", result)

C2_Witness ==
    /\ Returned
    /\ Len(filters) = 3
    /\ filters[1].logic = "and"
    /\ filters[2].logic = undefined
    /\ filters[3].logic = "or"

C4_LongRunOneFlatGroup ==
    Returned =>
        LET fl == Flat(result)
            tops == TopTerms(result)
        IN  \A i, j \in 1..Len(filters) :
                (j >= i + 2 /\ OrLinked(filters, i, j)) =>
                    /\ Len(fl) = Len(filters)
                    /\ \A k \in i..j :
                          /\ fl[k].grouped
                          /\ fl[k].top = fl[i].top
                          /\ fl[k].term = "values->>" \o Cond(filters[k])
                    /\ ~Occurs("or=(", SubSeq(tops[fl[i].top], 2,
                                              Len(tops[fl[i].top])))

C4_Witness ==
    /\ Returned
    /\ Len(filters) = 4
    /\ filters[1].logic = "and"
    /\ filters[2].logic = "or"
    /\ filters[3].logic = "or"

\* C5: whenever criterion i has connector `and` and criterion i+1 exists,
\* criterion i+1 starts a new group: its term is the first of the next
\* top-level term, separated from the term of criterion i by a top-level `&`.
C5_AndStartsNewGroup ==
    Returned =>
        LET fl == Flat(result)
        IN  \A i \in 1..(Len(filters) - 1) :
                filters[i].logic = "and" =>
                    /\ Len(fl) = Len(filters)
                    /\ fl[i + 1].top = fl[i].top + 1

C5_Witness ==
    /\ Returned
    /\ Len(filters) = 4
    /\ filters[1].logic = "or"
    /\ filters[2].logic = "and"
    /\ filters[3].logic = "or"

C7_OrBindsTighter ==
    Returned =>
        LET fl == Flat(result)
            n == Len(filters)
        IN  /\ Len(fl) = n
            /\ \A i \in 1..n : Strip(fl[i].term) = Cond(filters[i])
            /\ \A tv \in [1..n -> BOOLEAN] :
                  (\A g \in 1..Len(TopTerms(result)) :
                       \E i \in 1..n : fl[i].top = g /\ tv[i])
                  <=>
                  (\A i \in 1..n :
                       (i = 1 \/ filters[i - 1].logic # "or") =>
                           \E k \in i..n : OrLinked(filters, i, k) /\ tv[k])

C7_Witness ==
    /\ Returned
    /\ Len(filters) = 3
    /\ filters[1].logic = "and"
    /\ filters[2].logic = "or"

\* C8: in the fast path and in the grouped path the emitted literal is the raw
\* value followed by one `*` for `like`, the raw value between two `*` for
\* `ilike`, and the raw value unchanged for eq, gt, lt, gte and lte, whatever
\* the field, the connector and the position.
C8_LiteralByOperator ==
    Returned =>
        LET fl == Flat(result)
        IN  /\ Len(fl) = Len(filters)
            /\ \A i \in 1..Len(filters) :
                  Split(Strip(fl[i].term), ".")
                    = << filters[i].field, filters[i].operator,
                         CASE filters[i].operator = "like" ->
                                  filters[i].value \o "*"
                           [] filters[i].operator = "ilike" ->
                                  "*" \o filters[i].value \o "*"
                           [] filters[i].operator
                                  \in {"eq", "gt", "lt", "gte", "lte"} ->
                                  filters[i].value >>

C8_Witness ==
    /\ Returned
    /\ Len(filters) = 2
    /\ filters[1] = [field |-> "name", operator |-> "like", value |-> "Jo",
                     logic |-> "or"]
    /\ filters[2] = [field |-> "age", operator |-> "ilike", value |-> "Jo",
                     logic |-> "and"]

\* C9: the connector of the last criterion never influences the result: the
\* list with its last connector replaced by `and`, `or` or none compiles to
\* the same string, and a single criterion with connector `or` yields the
\* ungrouped `values->` form.
C9_LastConnectorIgnored ==
    (Returned /\ Len(filters) > 0) =>
        /\ \A l \in FilterLogic \cup {undefined} :
              buildFilterQuery([filters EXCEPT ![Len(filters)].logic = l])
                = result
        /\ (Len(filters) = 1 /\ filters[1].logic = "or") =>
              result = "values->" \o Cond(filters[1])

C9_Witness ==
    /\ Returned
    /\ Len(filters) = 3
    /\ filters[1].logic = "or"
    /\ filters[2].logic = "and"
    /\ filters[3].logic = "or"

WellFormed(fs) == \A i \in 1..Len(fs) : fs[i] # null

\* C11: buildFilterQuery is deterministic: two invocations on the same list,
\* with any invocations in between, yield the same outcome and the same
\* string, no state of an invocation reaching a later one.
C11_SameListSameString ==
    \A i, j \in 1..Len(log) :
        log[i].given = log[j].given =>
            /\ log[i].outcome = log[j].outcome
            /\ log[i].result = log[j].result

C11_Witness ==
    /\ Len(log) = 3
    /\ log[1].given = log[3].given
    /\ Len(log[1].given) = 2
    /\ WellFormed(log[1].given)
    /\ log[1].given[1].logic = "or"
    /\ log[1].given[2].logic = "or"
    /\ Len(log[2].given) = 2
    /\ WellFormed(log[2].given)
    /\ log[2].given[1].logic = "or"
    /\ log[2].given[2].logic = "and"

\* C12: an invocation leaves the list it was given unchanged and its
\* accumulators are its own: of two invocations whose statements interleave,
\* each returns the string it returns when run alone.
C12_InterleavedInvocationsIsolated ==
    /\ \A c \in Callers : calls[c].filters = calls[c].given
    /\ \A k \in 1..Len(log) :
          /\ log[k].filters = log[k].given
          /\ log[k].outcome = "return"
          /\ log[k].result = buildFilterQuery(log[k].given)

C12_Witness ==
    /\ Len(log) = 2
    /\ log[1].overlap
    /\ log[2].overlap
    /\ log[1].given # log[2].given
    /\ log[1].given[1].logic = "or"
    /\ log[2].given[1].logic = "or"

\* C13: buildFilterQuery is total over well-formed input: an invocation on a
\* list of criterion records never raises, returns a string, and does return.
C13_TotalOnWellFormed ==
    /\ [](WellFormed(calls[1].given) =>
            /\ calls[1].pc # "threw"
            /\ calls[1].pc = "return" => calls[1].result \in STRING)
    /\ (calls[1].pc = "entry" /\ WellFormed(calls[1].given))
           ~> (calls[1].pc = "return")

C13_Witness ==
    /\ calls[1].pc = "return"
    /\ Len(calls[1].given) = 4
    /\ calls[1].given[1].logic = undefined
    /\ calls[1].given[2].logic = "or"
    /\ calls[1].given[4].logic = undefined


\* C14: a criterion whose value is the empty string is neither rejected nor
\* dropped: the result has one term per criterion, and the term of a criterion
\* with the empty value carries the literal of the ordinary operator rule
\* (nothing for eq, gt, lt, gte, lte; `*` for like; `**` for ilike), in the
\* fast path and in the grouped path.
C14_EmptyValueKeepsItsTerm ==
    Returned =>
        LET fl == Flat(result)
        IN  /\ Len(fl) = Len(filters)
            /\ \A i \in 1..Len(filters) :
                  filters[i].value = "" =>
                      fl[i].term =
                          (IF hasOr(filters) THEN
                               IF InOrRun(filters, i) THEN "values->>"
                               ELSE "values->"
                           ELSE "values->")
                          \o filters[i].field \o "." \o filters[i].operator
                          \o "."
                          \o (IF filters[i].operator = "ilike" THEN "**"
                              ELSE IF filters[i].operator = "like" THEN "*"
                              ELSE "")

C14_Witness ==
    /\ Returned
    /\ filters = << [field |-> "name", operator |-> "ilike", value |-> "",
                     logic |-> "or"],
                    [field |-> "age", operator |-> "eq", value |-> "",
                     logic |-> "and"] >>
    /\ result = "or=(values->>name.ilike.**,values->>age.eq.)"

\* the text is a decimal literal as a whole: white space around it apart, a
\* sign, digits and a fraction, with a digit somewhere
WellFormedNumber(s) ==
    LET t == trim(s)
        signed == Len(t) > 0 /\ SubSeq(t, 1, 1) \in {"+", "-"}
        u == IF signed THEN SubSeq(t, 2, Len(t)) ELSE t
        ni == DigitsFrom(u, 1)
        dot == ni < Len(u) /\ SubSeq(u, ni + 1, ni + 1) = "."
        nf == IF dot THEN DigitsFrom(u, ni + 2) ELSE 0
    IN  /\ ni + nf > 0
        /\ Len(u) = ni + (IF dot THEN 1 + nf ELSE 0)

\* the latest handleSave handed a record to recordAPI.create
Created == rc.last # noValue /\ rc.last.created # noValue

\* the latest handleSave raised the validation alert and created nothing
Rejected ==
    /\ rc.last # noValue
    /\ rc.last.alert = "Validation Error"
    /\ rc.last.created = noValue

\* the fields of the form have names of their own
UniqueNames(fields) ==
    \A i, j \in 1..Len(fields) : fields[i].name = fields[j].name => i = j

\* C15: when handleSave runs on a form whose fields have names of their own,
\* with non-blank raw text in a field whose numeric flag is set, text that is
\* not a well-formed number is rejected with the validation alert and no
\* record is created, and text that is a well-formed number is stored as
\* that number ("42" as 42), not as a string.
C15_MalformedNumericTextRejected ==
    (rc.last # noValue /\ UniqueNames(rc.fields)) =>
        \A i \in 1..Len(rc.fields) :
            LET raw == rc.last.values[rc.fields[i].name]
            IN  (/\ rc.fields[i].is_num
                 /\ raw.t = "string"
                 /\ trim(raw.s) # "") =>
                    IF WellFormedNumber(raw.s)
                    THEN Created =>
                             /\ rc.last.created.values[rc.fields[i].name].t
                                    = "number"
                             /\ raw.s = "42" =>
                                    rc.last.created.values[rc.fields[i].name]
                                        = Number(42)
                    ELSE Rejected

\* C16: a record handed to recordAPI.create never has, under the name of a
\* multiple choice field, a value that is not one of the field's options.
C16_ChoiceValueAmongOptions ==
    Created =>
        \A i \in 1..Len(rc.fields) :
            rc.fields[i].field_type = "multiple choice" =>
                LET v == rc.last.created.values[rc.fields[i].name]
                IN  \/ v = noValue
                    \/ \E k \in 1..Len(rc.fields[i].options.items) :
                          v = String(rc.fields[i].options.items[k])

\* C18: handleSave hands a record to recordAPI.create only when every
\* required field has a value that is not blank; a value that was never
\* entered, or is the empty string, is left out of the record's mapping
\* (never stored as an empty string).
C18_RequiredNonBlankOptionalOmitted ==
    Created =>
        /\ \A i \in 1..Len(rc.fields) :
              rc.fields[i].required =>
                  LET raw == rc.last.values[rc.fields[i].name]
                  IN  /\ raw # noValue
                      /\ raw.t = "string" => trim(raw.s) # ""
        /\ \A k \in KeysOf(rc.fields) :
              /\ rc.last.created.values[k] # String("")
              /\ rc.last.values[k] \in {noValue, String("")} =>
                     rc.last.created.values[k] = noValue

C18_Witness ==
    /\ Created
    /\ Len(rc.fields) = 2
    /\ rc.fields[1].name = "age"
    /\ rc.fields[1].required
    /\ ~rc.fields[2].required
    /\ rc.last.values["age"] = String("abc")
    /\ rc.last.values["size"] = noValue
    /\ rc.last.created.values = [age |-> String("abc"), size |-> noValue]

\* C17: every field handleCreate hands to fieldAPI.create, after any sequence
\* of type changes, addOption and removeOption, has a non-empty option list
\* if and only if its type is `multiple choice`: options collected while the
\* type was `multiple choice` are not sent for another type, and a
\* `multiple choice` field without options is not submitted.
C17_OptionsIffMultipleChoice ==
    (fc.last # noValue /\ fc.last.created # noValue) =>
        LET field == fc.last.created
        IN  (field.options # noValue /\ Len(field.options.items) > 0)
                <=> field.field_type = "multiple choice"

C17_Witness ==
    /\ fc.last # noValue
    /\ fc.last.created # noValue
    /\ fc.last.created.field_type = "location"
    /\ fc.last.created.options = noValue
    /\ fc.options = <<"M", "S">>

\* C19: a handleSearch that finds a criterion with an empty or white-space-only
\* value in the filter list does not call recordAPI.getByFormId: it raises
\* the alert 'Validation Error' and leaves filters, results and the
\* searching flag as they were.
C19_BlankValueStopsSearch ==
    [][(/\ handleSearch
        /\ \E i \in 1..Len(fb.filters) : trim(fb.filters[i].value) = "")
       => /\ fb'.last = [alert |-> "Validation Error", called |-> FALSE]
          /\ fb'.filters = fb.filters
          /\ fb'.results = fb.results
          /\ fb'.searching = fb.searching]_vars

C19_Witness ==
    /\ fb.last = [alert |-> "Validation Error", called |-> FALSE]
    /\ Len(fb.filters) = 2
    /\ fb.filters[1].value = "Jo"
    /\ fb.filters[2].value = " "
    /\ fb.results = Array(<<1>>)
    /\ ~fb.searching

\* the URL of the records of a form, without criteria
RecordsOf(id) == API_BASE \o "/record?form_id=eq." \o ToString(id)

\* C20: recordAPI.getByFormId requests exactly <base>/record?form_id=eq.<id>
\* when the filter list is absent or empty, with no trailing `&`, and that
\* URL, one `&` and the fragment of buildFilterQuery when the list is not
\* empty; the fragment never begins or ends with `&`.
C20_RequestedUrl ==
    req.pc # "called" =>
        IF req.filters = noValue \/ Len(req.filters.items) = 0
        THEN req.url = RecordsOf(req.formId)
        ELSE LET base == RecordsOf(req.formId)
                 rest == SubSeq(req.url, Len(base) + 1, Len(req.url))
                 fragment == SubSeq(rest, 2, Len(rest))
             IN  /\ StartsWith(req.url, base)
                 /\ StartsWith(rest, "&")
                 /\ fragment = buildFilterQuery(req.filters.items)
                 /\ Len(fragment) > 0
                 /\ SubSeq(fragment, 1, 1) # "&"
                 /\ SubSeq(fragment, Len(fragment), Len(fragment)) # "&"


\* the size optimizeImage computed for the last compression result
lastSize == getBase64Size(img.result)

\* the last compression result is over the size limit
OverLimit(i) == i.result # noValue /\ i.result.len > 0
                /\ getBase64Size(i.result) > MAX_SIZE

\* C22: optimizeImage always terminates: it makes at most 5 compression
\* attempts, after each attempt that is still over the size limit the quality
\* is 0.7 times what it was, no further attempt is started once the quality
\* is no longer above 0.1, it returns null when the last attempt is over the
\* limit, and every call eventually returns.  (An attempt the compressor
\* rejects ends the call with null and changes nothing else.)
C22_OptimizeImageTerminates ==
    /\ [](img.attemptCount <= 5)
    /\ [][(img.pc = "manipulating" /\ OverLimit(img')
              /\ "Error" \notin img'.alerts)
            => /\ img'.currentQuality.num = img.currentQuality.num * 7
               /\ img'.currentQuality.den = img.currentQuality.den * 10
               /\ (img'.pc = "do")
                   = (img'.attemptCount < 5
                      /\ img'.currentQuality.num * 10
                          > img'.currentQuality.den)]_vars
    /\ []((img.pc = "returned" /\ OverLimit(img))
            => img.returned = null)
    /\ <>(img.pc = "returned")

\* five attempts were made, each one over the limit, and null was returned
C22_Witness ==
    /\ img.pc = "returned"
    /\ img.attemptCount = 5
    /\ OverLimit(img)
    /\ img.returned = null

\* an image value of the record
IsImage(v) == "base64" \in DOMAIN v

\* C21: an image is written into the record's values only if its computed
\* size is at most 10 MB: optimizeImage returns a result only when the size of
\* the last compression result is at most MAX_SIZE, it has shown the
\* large-image warning exactly when that size is above 5 MB, and
\* handleImageCapture leaves the values alone when optimizeImage returned null.
C21_OnlyImagesWithinLimitStored ==
    /\ []((img.pc = "returned" /\ img.returned # null)
            => /\ img.returned.base64 = DataUrl(img.result)
               /\ img.returned.size = lastSize
               /\ lastSize <= 10 * 1024 * 1024
               /\ ("Large Image" \in img.alerts)
                    = (lastSize > 5 * 1024 * 1024))
    /\ []((img.pc = "returned" /\ img.returned = null)
            => "Large Image" \notin img.alerts)
    /\ [][(img.pc = "returned" /\ img.returned = null /\ img'.pc = "idle")
            => rc'.values = rc.values]_vars
    /\ [](\A k \in DOMAIN rc.values :
            IsImage(rc.values[k])
              => getBase64Size(rc.values[k]) <= 10 * 1024 * 1024)

\* an image of exactly 10 MB has been stored after the large-image warning
C21_Witness ==
    /\ rc.capture = noValue
    /\ IsImage(rc.values["photo"])
    /\ getBase64Size(rc.values["photo"]) = 10 * 1024 * 1024


\* C30: completing a location or image capture for a field changes only that
\* field's entry of the values: every other field keeps the value it had just
\* before the capture completed, the values entered while the capture was
\* waiting included.
C30_CaptureKeepsOtherFields ==
    [][(rc.capture # noValue /\ rc'.capture = noValue)
         => \A k \in DOMAIN rc.values \ {rc.capture.fieldName} :
               rc'.values[k] = rc.values[k]]_vars


\* the entry get(key) has to answer with: that of the latest set(key), unless
\* it was removed, cleared or has expired
Fresh(key) ==
    /\ cache.lastSet[key] # null
    /\ cache.now <= cache.lastSet[key].expiresAt

\* caller c's call of `op` returns in this step
Returns(c, op) ==
    /\ cache.procs[c].pc \notin {"idle", "returned", "rejected"}
    /\ cache.procs[c].op = op
    /\ cache'.procs[c].pc = "returned"

Cached(key) ==
    /\ cache.storage[getKey(key)] # null
    /\ ~isExpired(parse(cache.storage[getKey(key)]), cache.now)

\* another caller's getOrFetch for the same key has called fetchFn and has
\* not yet stored the result
FetchUnderWay(c, key) ==
    \E d \in DOMAIN cache.procs \ {c} :
        /\ cache.procs[d].pc \in {"fetching", "setItem"}
        /\ cache.procs[d].key = key

\* C24: getOrFetch returns the data of a stored, unexpired entry without
\* calling fetchFn; it calls fetchFn only when no such entry is stored and no
\* overlapping getOrFetch for the key has a fetch under way (at most one
\* fetch per expiry period); what it stores is the fetched data, expiring ttl
\* after the fetch, and that is what it returns.
C24_FetchOncePerExpiryPeriod ==
    [][\A c \in DOMAIN cache.procs :
          LET frame == cache.procs[c]
              after == cache'.procs[c]
          IN  /\ (frame.pc = "getItem" /\ frame.op = "getOrFetch"
                    /\ after # frame /\ Cached(frame.key))
                   => /\ after.pc = "returned"
                      /\ after.ret = parse(cache.storage[getKey(frame.key)]).data
              /\ (frame.pc # "fetching" /\ after.pc = "fetching")
                   => /\ ~Cached(frame.key)
                      /\ ~FetchUnderWay(c, frame.key)
              /\ (frame.pc = "fetching" /\ after.pc = "setItem")
                   => after.entry.expiresAt = cache.now + frame.ttl
              /\ (frame.pc = "setItem" /\ frame.op = "getOrFetch"
                    /\ after.pc = "returned")
                   => /\ cache'.storage[getKey(frame.key)]
                            = stringify(frame.entry)
                      /\ after.ret = frame.entry.data]_vars


RECURSIVE Concat(_)
\* the groups one after the other
Concat(groups) ==
    IF Len(groups) = 0 THEN <<>>
    ELSE Head(groups) \o Concat(Tail(groups))

\* the non-final criteria whose connector is not `or`
Closing(fs) == {i \in 1..(Len(fs) - 1) : fs[i].logic # "or"}

\* C25: on the general path the grouping pass partitions its input: every
\* group is non-empty, the groups one after the other are the input criteria,
\* each once and in input order, and there are one plus the number of
\* non-final criteria with a connector other than `or` groups and top-level
\* terms.
C25_GroupsPartitionInput ==
    (Returned /\ hasOr(filters))
      => /\ \A g \in 1..Len(groupsOf(filters)) : Len(groupsOf(filters)[g]) > 0
         /\ Concat(groupsOf(filters))
              = [i \in 1..Len(filters) |-> "values->>" \o Cond(filters[i])]
         /\ Len(groupsOf(filters)) = 1 + Cardinality(Closing(filters))
         /\ Len(TopTerms(result)) = 1 + Cardinality(Closing(filters))
         /\ [k \in 1..Len(Flat(result)) |-> Strip(Flat(result)[k].term)]
              = [i \in 1..Len(filters) |-> Cond(filters[i])]

\* four criteria in three groups, the first group of two
C25_Witness ==
    /\ Returned
    /\ Len(filters) = 4
    /\ filters[1].logic = "or"
    /\ Closing(filters) = {2, 3}
    /\ Len(TopTerms(result)) = 3

\* criterion i stands alone in its group
Alone(fs, i) == ~InOrRun(fs, i)

\* the index of the group criterion i is pushed to
GroupOf(fs, i) == 1 + Cardinality({j \in 1..(i - 1) : fs[j].logic # "or"})

\* C26: on the general path the term of a criterion that is alone in its
\* group is the term the fast path emits for that criterion, character for
\* character, also when its field or its value contains `values->>`: only the
\* leading accessor is rewritten.
C26_SingletonTermIsFastPathTerm ==
    (Returned /\ hasOr(filters))
      => \A i \in 1..Len(filters) :
            Alone(filters, i)
              => /\ renderGroup(groupsOf(filters)[GroupOf(filters, i)])
                      = "values->" \o Cond(filters[i])
                 /\ TopTerms(result)[GroupOf(filters, i)]
                      = buildFilterQuery(<<[filters[i] EXCEPT !.logic = "and"]>>)

\* a criterion that is alone in its group has `values->>` in its field and in
\* its value
C26_Witness ==
    /\ Returned
    /\ hasOr(filters)
    /\ \E i \in 1..Len(filters) :
          /\ Alone(filters, i)
          /\ filters[i].field = "values->>a"
          /\ filters[i].value = "values->>"


\* the call has rejected
Threw == req.pc = "threw"

C28_SearchSettlesOneInFlight ==
    /\ [](fb.pending <= 1)
    /\ [](fb.searching = (fb.pending = 1))
    /\ [][(fb'.pending > fb.pending) => (~fb.searching /\ fb'.searching)]_vars
    /\ (fb.pending > 0) ~> ~fb.searching

\* a request is in flight while the criteria have been cleared and the
\* button shows the spinner
C28_Witness ==
    /\ fb.pending = 1
    /\ fb.searching
    /\ fb.filters = <<>>

\* C29: after handleClearFilters the results stay null until a new search is
\* started: the response of a request started before "Clear All" is not
\* shown.
C29_ClearedResultsStayNull ==
    fb.cleared => fb.results = null

=============================================================================
